---- MODULE Spec2Model ----
(***************************************************************************)
(* QueryInspectMiddleware (qinspect/middleware.py): the per-request SQL    *)
(* query inspection of django-queryinspect.                                *)
(*                                                                         *)
(* Elapsed times are Python floats in seconds.  They are modelled exactly, *)
(* as whole numbers of ticks with TicksPerSecond ticks to the second, and  *)
(* every comparison of the code is carried out in exact rational           *)
(* arithmetic (cross-multiplied, so that no division or square root is     *)
(* rounded).                                                               *)
(***************************************************************************)
EXTENDS Integers, Sequences, FiniteSets, TLC

VARIABLES cfg, queries, has_request_start, request_start, conn_queries_len,
          clock, req, op, infos, num_duplicates, request_time, log,
          response, raised

vars == <<cfg, queries, has_request_start, request_start, conn_queries_len,
          clock, req, op, infos, num_duplicates, request_time, log,
          response, raised>>

(***************************************************************************)
(* Bounds of the model.                                                    *)
(***************************************************************************)
TicksPerSecond == 3
MaxTime == 2
MaxDupBatch == 5
MaxTimedBatch == 4
MaxStatsBatch == 2
MaxThreshold == 2
MaxStddevLimit == 2
MaxDuplicates == 3
MaxRequestTime == 4
MaxClock == 1
MaxQueries == 2

(***************************************************************************)
(* Program constants.                                                      *)
(***************************************************************************)
MillisPerSecond == 1000
DefaultMedium == 3
DefaultHigh == 20

(* an optional value: None, or Some(x) *)
None == <<>>
Some(x) == <<x>>
Unset == "<unset>"

Sqls == {"SELECT a", "SELECT b"}
Tracebacks == {<<"views.py">>}
Times == 0 .. MaxTime

(***************************************************************************)
(* Small helpers.                                                          *)
(***************************************************************************)
RECURSIVE SumSeq(_)
SumSeq(s) == IF s = <<>> THEN 0 ELSE Head(s) + SumSeq(Tail(s))

RECURSIVE Reverse(_)
Reverse(s) == IF s = <<>> THEN <<>> ELSE Append(Reverse(Tail(s)), Head(s))

Abs(x) == IF x < 0 THEN -x ELSE x

SeqsUpTo(S, n) == UNION {[1 .. k -> S] : k \in 0 .. n}

(***************************************************************************)
(* str(n) and '%d' % x for a non-negative number: its decimal digits.      *)
(***************************************************************************)
Digit(d) ==
    CASE d = 0 -> "0" [] d = 1 -> "1" [] d = 2 -> "2" [] d = 3 -> "3"
      [] d = 4 -> "4" [] d = 5 -> "5" [] d = 6 -> "6" [] d = 7 -> "7"
      [] d = 8 -> "8" [] d = 9 -> "9"

RECURSIVE str(_)
str(n) == IF n < 10 THEN Digit(n) ELSE str(n \div 10) \o Digit(n % 10)

(* ticks * 1000 as '%d' prints it: the whole milliseconds, truncated *)
Millis(ticks) == (ticks * MillisPerSecond) \div TicksPerSecond

(***************************************************************************)
(* cfg: the module-level configuration, read once at import.               *)
(***************************************************************************)
DefaultCfg ==
    [log_stats |-> TRUE, header_stats |-> TRUE, log_queries |-> FALSE,
     log_tbs |-> FALSE, stddev_limit |-> None, absolute_limit |-> None,
     threshold |-> [MEDIUM |-> DefaultMedium, HIGH |-> DefaultHigh],
     ignore_patterns |-> {}]

Thresholds ==
    {[MEDIUM |-> m, HIGH |-> h] : m \in 0 .. MaxThreshold, h \in 0 .. MaxThreshold}
        \cup {DefaultCfg.threshold}

(***************************************************************************)
(* Raw query records of connection.queries: dicts with 'sql' and 'time',   *)
(* and 'tb' when the patched cursor attached a traceback.                  *)
(***************************************************************************)
RawQuery(sql, time, tb) ==
    IF tb = None THEN [sql |-> sql, time |-> time]
    ELSE [sql |-> sql, time |-> time, tb |-> tb[1]]

(* get_query_infos: one QueryInfo per raw record; q.get('tb') is None when absent *)
QueryInfo(q) ==
    [sql |-> q.sql, time |-> q.time,
     tb |-> IF "tb" \in DOMAIN q THEN Some(q.tb) ELSE None]

get_query_infos(qs) == [i \in 1 .. Len(qs) |-> QueryInfo(qs[i])]

(***************************************************************************)
(* count_duplicates / group_queries                                        *)
(***************************************************************************)
Count(batch, sql) == Cardinality({i \in 1 .. Len(batch) : batch[i].sql = sql})

(* the keys of buf in insertion order: each sql at its first occurrence *)
RECURSIVE FirstOccurrences(_, _)
FirstOccurrences(batch, seen) ==
    IF batch = <<>> THEN <<>>
    ELSE IF Head(batch).sql \in seen THEN FirstOccurrences(Tail(batch), seen)
    ELSE <<Head(batch).sql>> \o
         FirstOccurrences(Tail(batch), seen \cup {Head(batch).sql})

(* stable insertion of an item into a sequence sorted by count, descending *)
RECURSIVE InsertDesc(_, _)
InsertDesc(sorted, item) ==
    IF sorted = <<>> THEN <<item>>
    ELSE IF Head(sorted)[2] >= item[2]
         THEN <<Head(sorted)>> \o InsertDesc(Tail(sorted), item)
         ELSE <<item>> \o sorted

RECURSIVE SortDesc(_)
SortDesc(items) ==
    IF items = <<>> THEN <<>>
    ELSE InsertDesc(SortDesc(SubSeq(items, 1, Len(items) - 1)), items[Len(items)])

count_duplicates(batch) ==
    LET keys == FirstOccurrences(batch, {})
    IN SortDesc([i \in 1 .. Len(keys) |-> <<keys[i], Count(batch, keys[i])>>])

group_queries(batch) ==
    [sql \in {batch[i].sql : i \in 1 .. Len(batch)} |->
        SelectSeq(batch, LAMBDA qi : qi.sql = sql)]

(***************************************************************************)
(* colorize: the style of a line for a count.                              *)
(***************************************************************************)
colorize_Swapped(c, count) ==
    IF count > c.threshold.HIGH THEN "yellow"
    ELSE IF count > c.threshold.MEDIUM THEN "red"
    ELSE "green"

colorize(c, count) ==
    IF count > c.threshold.HIGH THEN "red"
    ELSE IF count > c.threshold.MEDIUM THEN "yellow"
    ELSE "green"

(***************************************************************************)
(* check_duplicates                                                        *)
(***************************************************************************)
(* lines 140-143: the (sql, num) pairs with num > 1, least duplicated first *)
Duplicates(batch) ==
    Reverse(SelectSeq(count_duplicates(batch), LAMBDA el : el[2] > 1))

DuplicateExcess_OffByOne(duplicates) ==
    IF Len(duplicates) > 0
    THEN SumSeq([i \in 1 .. Len(duplicates) |-> duplicates[i][2]]) - 1
    ELSE 0

(* lines 144-146 *)
DuplicateExcess(duplicates) ==
    IF Len(duplicates) > 0
    THEN SumSeq([i \in 1 .. Len(duplicates) |-> duplicates[i][2]]) - Len(duplicates)
    ELSE 0

(* traceback.format_list joined: one formatted line per frame *)
RECURSIVE FormatTb(_)
FormatTb(tb) ==
    IF tb = <<>> THEN ""
    ELSE "  File " \o Head(tb) \o "\n" \o FormatTb(Tail(tb))

RepeatedLine(c, sql, num) ==
    [kind |-> "repeated", style |-> colorize(c, num), num |-> num, sql |-> sql]

TracebackLine(tb) ==
    [kind |-> "traceback", style |-> "plain", text |-> "Traceback:\n" \o FormatTb(tb)]

(* lines 150-161: the loop over the duplicates.  traceback.format_list(None)
   raises TypeError, which ends the loop and the call. *)
RECURSIVE LogDuplicates(_, _, _)
LogDuplicates(c, duplicates, groups) ==
    IF duplicates = <<>> THEN [log |-> <<>>, raised |-> FALSE]
    ELSE LET sql == Head(duplicates)[1]
             num == Head(duplicates)[2]
             line == RepeatedLine(c, sql, num)
         IN IF c.log_tbs /\ groups[sql] # <<>>
            THEN IF groups[sql][1].tb = None
                 THEN [log |-> <<line>>, raised |-> TRUE]
                 ELSE LET rest == LogDuplicates(c, Tail(duplicates), groups)
                      IN [log |-> <<line, TracebackLine(groups[sql][1].tb[1])>> \o rest.log,
                          raised |-> rest.raised]
            ELSE LET rest == LogDuplicates(c, Tail(duplicates), groups)
                 IN [log |-> <<line>> \o rest.log, raised |-> rest.raised]

check_duplicates(c, batch) ==
    LET duplicates == Duplicates(batch)
        n == DuplicateExcess(duplicates)
        out == IF c.log_queries
               THEN LogDuplicates(c, duplicates, group_queries(batch))
               ELSE [log |-> <<>>, raised |-> FALSE]
    IN [n |-> IF out.raised THEN None ELSE Some(n), log |-> out.log, raised |-> out.raised]

(***************************************************************************)
(* check_stddev_limit                                                      *)
(*                                                                         *)
(* With n records of m_1..m_n ticks and total ticks T, n*(t_j - mean) is   *)
(* (n*m_j - T) ticks.  A variance is kept as a fraction num/den of         *)
(* seconds squared.                                                        *)
(***************************************************************************)
TimesOf(batch) == [i \in 1 .. Len(batch) |-> batch[i].time]

(* n * (t - mean), in ticks *)
Deviation(batch, time) == Len(batch) * time - SumSeq(TimesOf(batch))

(* lines 173-177: stddev_sum = sum(sqrt((t - mean)^2)) = sum(|t - mean|), and
   stddev^2 = (1/(n-1)) * (stddev_sum/n); stddev = 0 when n < 2 *)
StddevSquared(batch) ==
    LET n == Len(batch)
    IN IF n < 2 THEN [num |-> 0, den |-> 1]
       ELSE [num |-> SumSeq([i \in 1 .. n |-> Abs(Deviation(batch, batch[i].time))]),
             den |-> n * TicksPerSecond * n * (n - 1)]

(* t > mean + sqrt(variance) * k for k >= 0: t - mean is positive and its
   square, (d / (n*TicksPerSecond))^2, exceeds k^2 * variance *)
OverLimit(batch, time, variance, k) ==
    LET d == Deviation(batch, time)
        unit == Len(batch) * TicksPerSecond
    IN /\ d > 0
       /\ d * d * variance.den > k * k * variance.num * unit * unit

(* the '%d ms' rendering of the limit needs a rounded square root and is
   left out of the line; the elapsed time, the multiplier and the sql are kept *)
StddevLine(c, qi) ==
    [kind |-> "stddev", style |-> "plain", ms |-> Millis(qi.time),
     dev |-> c.stddev_limit[1], sql |-> qi.sql]

check_stddev_limit(c, batch) ==
    IF c.stddev_limit = None \/ Len(batch) = 0 THEN <<>>
    ELSE LET over == SelectSeq(batch, LAMBDA qi :
                         OverLimit(batch, qi.time, StddevSquared(batch), c.stddev_limit[1]))
         IN [i \in 1 .. Len(over) |-> StddevLine(c, over[i])]

(***************************************************************************)
(* check_absolute_limit                                                    *)
(***************************************************************************)
OverAbsolute_OrEqual(c, time) ==
    time * MillisPerSecond >= c.absolute_limit[1] * TicksPerSecond

(* line 196, 199: qi.time > absolute_limit / 1000.0, with qi.time = time/TicksPerSecond *)
OverAbsolute(c, time) ==
    time * MillisPerSecond > c.absolute_limit[1] * TicksPerSecond

AbsoluteLine(c, qi) ==
    [kind |-> "absolute", style |-> "plain", ms |-> Millis(qi.time),
     limit_ms |-> c.absolute_limit[1], sql |-> qi.sql]

check_absolute_limit(c, batch) ==
    IF c.absolute_limit = None \/ Len(batch) = 0 THEN <<>>
    ELSE LET over == SelectSeq(batch, LAMBDA qi : OverAbsolute(c, qi.time))
         IN [i \in 1 .. Len(over) |-> AbsoluteLine(c, over[i])]

(***************************************************************************)
(* output_stats                                                            *)
(***************************************************************************)
HNumQueries == "X-QueryInspect-Num-SQL-Queries"
HSqlTime == "X-QueryInspect-Total-SQL-Time"
HRequestTime == "X-QueryInspect-Total-Request-Time"
HDuplicates == "X-QueryInspect-Duplicate-SQL-Queries"
StatsHeaderNames == {HNumQueries, HSqlTime, HRequestTime, HDuplicates}
HeaderNames == StatsHeaderNames \cup {"Content-Type"}

(* the response the view hands to the middleware *)
FreshResponse ==
    [h \in HeaderNames |-> IF h = "Content-Type" THEN "text/html" ELSE Unset]

(* line 212: the summary line is always rendered with self.yellow *)
StatsStyle(c, dups) == "yellow"

StatsLine(c, n, dups, sql_time, req_time) ==
    [kind |-> "stats", style |-> StatsStyle(c, dups), n |-> n, duplicates |-> dups,
     sql_ms |-> Millis(sql_time), request_ms |-> Millis(req_time)]

StatsHeaders_TimesSwapped(n, dups, sql_time, req_time) ==
    [h \in StatsHeaderNames |->
        CASE h = HNumQueries -> str(n)
          [] h = HSqlTime -> str(Millis(req_time)) \o " ms"
          [] h = HRequestTime -> str(Millis(sql_time)) \o " ms"
          [] h = HDuplicates -> str(dups)]

(* lines 221-227 *)
StatsHeaders(n, dups, sql_time, req_time) ==
    [h \in StatsHeaderNames |->
        CASE h = HNumQueries -> str(n)
          [] h = HSqlTime -> str(Millis(sql_time)) \o " ms"
          [] h = HRequestTime -> str(Millis(req_time)) \o " ms"
          [] h = HDuplicates -> str(dups)]

output_stats(c, batch, dups, req_time, resp) ==
    LET sql_time == SumSeq(TimesOf(batch))
        n == Len(batch)
        set == StatsHeaders(n, dups, sql_time, req_time)
    IN [log |-> IF c.log_stats
                THEN <<StatsLine(c, n, dups, sql_time, req_time)>>
                ELSE <<>>,
        response |-> IF c.header_stats
                     THEN [h \in DOMAIN resp |->
                              IF h \in DOMAIN set THEN set[h] ELSE resp[h]]
                     ELSE resp]

(***************************************************************************)
(* ignore_request                                                          *)
(*                                                                         *)
(* Paths and patterns are sequences of characters; the patterns are        *)
(* literal, so re.match(pattern, path) holds when path begins with pattern.*)
(***************************************************************************)
re_match(pattern, path) ==
    /\ Len(pattern) <= Len(path)
    /\ SubSeq(path, 1, Len(pattern)) = pattern

ignore_request(c, path) == \E pattern \in c.ignore_patterns : re_match(pattern, path)

(***************************************************************************)
(* The request cycle: process_request, the queries of the view, and        *)
(* process_response, on one middleware instance and one connection.        *)
(***************************************************************************)
Paths == {<<"/", "a", "b">>, <<"/", "b">>}
IgnorePatternSets == {{}, {<<"/", "a">>}}

IdleReq == [phase |-> "idle", path |-> <<>>, start_called |-> FALSE, executed |-> <<>>]

NoOutput ==
    /\ infos = <<>>
    /\ num_duplicates = None
    /\ request_time = None
    /\ log = <<>>
    /\ response = FreshResponse
    /\ raised = FALSE

NoMiddlewareState ==
    /\ queries = <<>>
    /\ has_request_start = FALSE
    /\ request_start = None
    /\ conn_queries_len = None
    /\ clock = 0
    /\ req = IdleReq

(* the configurations of the request cycle, a sample in which every option
   takes each of its values: tracebacks are logged only with the queries, and
   the two limits are set exactly when the queries are logged *)
ConfigChoices ==
    {x \in BOOLEAN \X BOOLEAN \X BOOLEAN \X BOOLEAN \X {None, Some(0)}
             \X {None, Some(0)} \X IgnorePatternSets :
        /\ x[4] => x[3]
        /\ (x[5] # None) = x[3]
        /\ (x[6] # None) = x[3]}

Configs ==
    {[DefaultCfg EXCEPT !.log_stats = x[1], !.header_stats = x[2],
                        !.log_queries = x[3], !.log_tbs = x[4],
                        !.stddev_limit = x[5], !.absolute_limit = x[6],
                        !.ignore_patterns = x[7]] : x \in ConfigChoices}

Init ==
    /\ cfg \in Configs
    /\ NoMiddlewareState
    /\ op = "cycle"
    /\ NoOutput

NewRequest(path, called) ==
    /\ req.phase # "active"
    /\ req' = [phase |-> "active", path |-> path, start_called |-> called,
               executed |-> <<>>]
    /\ infos' = <<>>
    /\ num_duplicates' = None
    /\ request_time' = None
    /\ log' = <<>>
    /\ response' = FreshResponse
    /\ raised' = FALSE

(* process_request: lines 229-232 *)
ProcessRequest(path) ==
    /\ NewRequest(path, TRUE)
    /\ op' = op
    /\ IF ~ignore_request(cfg, path)
       THEN /\ has_request_start' = TRUE
            /\ request_start' = Some(clock)
            /\ conn_queries_len' = Some(Len(queries))
       ELSE UNCHANGED <<has_request_start, request_start, conn_queries_len>>
    /\ UNCHANGED <<cfg, queries, clock>>

(* a request whose process_request the hosting layer never invokes *)
RequestWithoutStart(path) ==
    /\ NewRequest(path, FALSE)
    /\ op' = op
    /\ UNCHANGED <<cfg, queries, clock, has_request_start, request_start,
                   conn_queries_len>>

(* the view executes a statement: the connection appends its record, with a
   traceback when the cursor is patched (log_tbs) and the statement went
   through it *)
ExecuteQuery(sql, time, tb) ==
    /\ req.phase = "active"
    /\ Len(queries) < MaxQueries
    /\ clock + time <= MaxClock
    /\ tb # None => cfg.log_tbs
    /\ queries' = Append(queries, RawQuery(sql, time, tb))
    /\ clock' = clock + time
    /\ req' = [req EXCEPT !.executed = Append(@, RawQuery(sql, time, tb))]
    /\ op' = op
    /\ UNCHANGED <<cfg, has_request_start, request_start, conn_queries_len, infos,
                   num_duplicates, request_time, log, response, raised>>

(* time passes outside the database *)
Tick ==
    /\ clock < MaxClock
    /\ clock' = clock + 1
    /\ UNCHANGED <<cfg, queries, has_request_start, request_start, conn_queries_len,
                   req, op, infos, num_duplicates, request_time, log, response,
                   raised>>

ShouldInspect_NoIgnoreCheck(c, started, path) == started

(* lines 235-238 *)
ShouldInspect(c, started, path) == started /\ ~ignore_request(c, path)

RequestQueries_WholeList(qs, offset) == qs

(* line 242: connection.queries[self.conn_queries_len:] *)
RequestQueries(qs, offset) == SubSeq(qs, offset + 1, Len(qs))

(* lines 239-247, for a request that is inspected *)
Inspect(c, qs, offset, start, now, resp) ==
    LET batch == get_query_infos(RequestQueries(qs, offset))
        dup == check_duplicates(c, batch)
        stats == output_stats(c, batch, dup.n[1], now - start, resp)
    IN IF dup.raised
       THEN [infos |-> batch, num_duplicates |-> None, request_time |-> Some(now - start),
             log |-> dup.log, response |-> resp, raised |-> TRUE]
       ELSE [infos |-> batch, num_duplicates |-> dup.n, request_time |-> Some(now - start),
             log |-> dup.log \o check_stddev_limit(c, batch)
                             \o check_absolute_limit(c, batch) \o stats.log,
             response |-> stats.response, raised |-> FALSE]

(* process_response: lines 234-249 *)
ProcessResponse ==
    /\ req.phase = "active"
    /\ req' = [req EXCEPT !.phase = "ended"]
    /\ op' = op
    /\ IF ShouldInspect(cfg, has_request_start, req.path)
       THEN LET r == Inspect(cfg, queries, conn_queries_len[1], request_start[1], clock,
                             response)
            IN /\ infos' = r.infos
               /\ num_duplicates' = r.num_duplicates
               /\ request_time' = r.request_time
               /\ log' = r.log
               /\ response' = r.response
               /\ raised' = r.raised
       ELSE UNCHANGED <<infos, num_duplicates, request_time, log, response, raised>>
    /\ UNCHANGED <<cfg, queries, has_request_start, request_start, conn_queries_len,
                   clock>>

Next ==
    \/ \E path \in Paths : ProcessRequest(path)
    \/ \E path \in Paths : RequestWithoutStart(path)
    \/ \E sql \in Sqls, time \in 0 .. MaxClock, tb \in {Some(t) : t \in Tracebacks} \cup {None} :
          ExecuteQuery(sql, time, tb)
    \/ Tick
    \/ ProcessResponse

Spec == Init /\ [][Next]_vars

(***************************************************************************)
(* The detectors and the reporter on their own: the configuration and the  *)
(* arguments are drawn at the start, and the one step is the call.         *)
(***************************************************************************)
Batches(sqls, times, tbs, n) ==
    SeqsUpTo([sql : sqls, time : times, tb : tbs], n)

NoTracebacks(batch) == \A i \in 1 .. Len(batch) : batch[i].tb = None

Call(name) == op = "input" /\ op' = name

(* ---- check_duplicates ---- *)
DupConfigs ==
    {[DefaultCfg EXCEPT !.log_queries = x[1], !.log_tbs = x[2], !.threshold = x[3]] :
        x \in BOOLEAN \X BOOLEAN \X Thresholds}

InitDuplicates ==
    /\ cfg \in DupConfigs
    /\ infos \in Batches(Sqls, {0}, {None} \cup {Some(t) : t \in Tracebacks}, MaxDupBatch)
    /\ ~cfg.log_tbs => NoTracebacks(infos)
    /\ op = "input"
    /\ NoMiddlewareState
    /\ num_duplicates = None /\ request_time = None /\ log = <<>>
    /\ response = FreshResponse /\ raised = FALSE

CallCheckDuplicates ==
    /\ Call("check_duplicates")
    /\ LET r == check_duplicates(cfg, infos)
       IN /\ num_duplicates' = r.n
          /\ log' = r.log
          /\ raised' = r.raised
    /\ UNCHANGED <<cfg, queries, has_request_start, request_start, conn_queries_len,
                   clock, req, infos, request_time, response>>

NextDuplicates == CallCheckDuplicates

SpecDuplicates == InitDuplicates /\ [][NextDuplicates]_vars

(* ---- check_stddev_limit ---- *)
StddevConfigs ==
    {[DefaultCfg EXCEPT !.stddev_limit = k] :
        k \in {None} \cup {Some(x) : x \in 0 .. MaxStddevLimit}}

InitStddev ==
    /\ cfg \in StddevConfigs
    /\ infos \in Batches(Sqls, Times, {None}, MaxTimedBatch)
    /\ op = "input"
    /\ NoMiddlewareState
    /\ num_duplicates = None /\ request_time = None /\ log = <<>>
    /\ response = FreshResponse /\ raised = FALSE

CallCheckStddevLimit ==
    /\ Call("check_stddev_limit")
    /\ log' = check_stddev_limit(cfg, infos)
    /\ UNCHANGED <<cfg, queries, has_request_start, request_start, conn_queries_len,
                   clock, req, infos, num_duplicates, request_time, response, raised>>

NextStddev == CallCheckStddevLimit

SpecStddev == InitStddev /\ [][NextStddev]_vars

(* ---- check_absolute_limit ---- *)
AbsoluteLimits == {0, 250, 333, 334, 500, 1000}

AbsoluteConfigs ==
    {[DefaultCfg EXCEPT !.absolute_limit = l] :
        l \in {None} \cup {Some(x) : x \in AbsoluteLimits}}

InitAbsolute ==
    /\ cfg \in AbsoluteConfigs
    /\ infos \in Batches(Sqls, Times, {None}, MaxTimedBatch)
    /\ op = "input"
    /\ NoMiddlewareState
    /\ num_duplicates = None /\ request_time = None /\ log = <<>>
    /\ response = FreshResponse /\ raised = FALSE

CallCheckAbsoluteLimit ==
    /\ Call("check_absolute_limit")
    /\ log' = check_absolute_limit(cfg, infos)
    /\ UNCHANGED <<cfg, queries, has_request_start, request_start, conn_queries_len,
                   clock, req, infos, num_duplicates, request_time, response, raised>>

NextAbsolute == CallCheckAbsoluteLimit

SpecAbsolute == InitAbsolute /\ [][NextAbsolute]_vars

(* ---- output_stats ---- *)
StatsThresholds == {DefaultCfg.threshold, [MEDIUM |-> 0, HIGH |-> 1]}

StatsConfigs ==
    {[DefaultCfg EXCEPT !.log_stats = x[1], !.header_stats = x[2], !.threshold = x[3]] :
        x \in BOOLEAN \X BOOLEAN \X StatsThresholds}

InitStats ==
    /\ cfg \in StatsConfigs
    /\ infos \in Batches({"SELECT a"}, Times, {None}, MaxStatsBatch)
    /\ num_duplicates \in {Some(d) : d \in 0 .. MaxDuplicates}
    /\ request_time \in {Some(t) : t \in 0 .. MaxRequestTime}
    /\ op = "input"
    /\ NoMiddlewareState
    /\ log = <<>> /\ response = FreshResponse /\ raised = FALSE

CallOutputStats ==
    /\ Call("output_stats")
    /\ LET r == output_stats(cfg, infos, num_duplicates[1], request_time[1], response)
       IN /\ log' = r.log
          /\ response' = r.response
    /\ UNCHANGED <<cfg, queries, has_request_start, request_start, conn_queries_len,
                   clock, req, infos, num_duplicates, request_time, raised>>

NextStats == CallOutputStats

SpecStats == InitStats /\ [][NextStats]_vars

(***************************************************************************)
(* Properties.                                                             *)
(***************************************************************************)
SqlsOf(batch) == {batch[i].sql : i \in 1 .. Len(batch)}

RECURSIVE SumOver(_, _)
SumOver(S, batch) ==
    IF S = {} THEN 0
    ELSE LET x == CHOOSE y \in S : TRUE
         IN (Count(batch, x) - 1) + SumOver(S \ {x}, batch)

(* the sum of (count - 1) over the statement texts occurring more than once *)
ExpectedExcess(batch) ==
    SumOver({x \in SqlsOf(batch) : Count(batch, x) > 1}, batch)

LinesOf(kind) == SelectSeq(log, LAMBDA l : l.kind = kind)

(* C1: the number check_duplicates returns is the sum of (count - 1) over the
   statement texts that occur more than once in the batch; it is 0 for an
   empty batch and for a batch of distinct texts. *)
C1_DuplicateExcess ==
    (op = "check_duplicates" /\ ~raised) =>
        /\ num_duplicates = Some(ExpectedExcess(infos))
        /\ (\A x \in SqlsOf(infos) : Count(infos, x) = 1) => num_duplicates = Some(0)

C1_Witness ==
    /\ op = "check_duplicates"
    /\ ~raised
    /\ \E x, y \in SqlsOf(infos) : Count(infos, x) = 2 /\ Count(infos, y) = 3
    /\ num_duplicates = Some(3)

(* the sample variance: sum((t - mean)^2) / (n - 1) *)
SampleVariance(batch) ==
    LET n == Len(batch)
    IN IF n < 2 THEN [num |-> 0, den |-> 1]
       ELSE [num |-> SumSeq([i \in 1 .. n |->
                        Deviation(batch, batch[i].time) * Deviation(batch, batch[i].time)]),
             den |-> n * n * TicksPerSecond * TicksPerSecond * (n - 1)]

(* C2: check_stddev_limit flags exactly the records whose elapsed time is
   greater than mean + k * stddev, stddev being the sample standard
   deviation (n - 1 in the denominator) for n >= 2 and 0 for n < 2. *)
C2_SampleStddevLimit ==
    (op = "check_stddev_limit" /\ cfg.stddev_limit # None) =>
        LET over == SelectSeq(infos, LAMBDA qi :
                        OverLimit(infos, qi.time, SampleVariance(infos),
                                  cfg.stddev_limit[1]))
        IN /\ Len(log) = Len(over)
           /\ \A i \in 1 .. Len(log) :
                 log[i].sql = over[i].sql /\ log[i].ms = Millis(over[i].time)

(* C3: check_absolute_limit emits one entry for exactly the records with
   elapsedSeconds * 1000 > absoluteLimitMillis, in order, and nothing when
   the limit is unset or the batch is empty. *)
C3_AbsoluteLimit ==
    op = "check_absolute_limit" =>
        IF cfg.absolute_limit = None \/ infos = <<>> THEN log = <<>>
        ELSE LET over == SelectSeq(infos, LAMBDA qi :
                             qi.time * MillisPerSecond
                                 > cfg.absolute_limit[1] * TicksPerSecond)
             IN /\ Len(log) = Len(over)
                /\ \A i \in 1 .. Len(log) :
                      /\ log[i].kind = "absolute"
                      /\ log[i].sql = over[i].sql
                      /\ log[i].ms = Millis(over[i].time)

C3_Witness ==
    /\ op = "check_absolute_limit"
    /\ cfg.absolute_limit # None
    /\ Len(log) >= 1
    /\ Len(log) < Len(infos)
    /\ \E i \in 1 .. Len(infos) :
          infos[i].time * MillisPerSecond = cfg.absolute_limit[1] * TicksPerSecond

(* C4: a request whose path matches an ignore pattern produces no log line
   and no response header, whatever was executed during it and whatever
   earlier requests left in the middleware. *)
C4_IgnoredRequestSilent ==
    (req.phase # "idle" /\ ignore_request(cfg, req.path)) =>
        /\ log = <<>>
        /\ response = FreshResponse
        /\ ~raised

C4_Witness ==
    /\ req.phase = "ended"
    /\ ignore_request(cfg, req.path)
    /\ has_request_start
    /\ req.executed # <<>>
    /\ cfg.log_stats /\ cfg.header_stats /\ cfg.log_queries

(* C5: the end of a request whose start was never invoked, or was skipped
   because the request is ignored, is a no-op: no log line, no header, no
   error, also when an earlier request was started on the same instance. *)
C5_EndWithoutStartIsNoOp ==
    (req.phase = "ended" /\ (~req.start_called \/ ignore_request(cfg, req.path))) =>
        /\ log = <<>>
        /\ response = FreshResponse
        /\ ~raised

(* C6: with header-stats on, output_stats sets exactly the four headers: the
   batch size and the duplicate excess as decimal strings, the SQL time and
   the request time as whole milliseconds followed by " ms"; with
   header-stats off it sets no header. *)
IsMillisHeader(value, ticks) ==
    \E ms \in 0 .. ticks * MillisPerSecond :
        /\ ms * TicksPerSecond <= ticks * MillisPerSecond
        /\ ticks * MillisPerSecond < (ms + 1) * TicksPerSecond
        /\ value = str(ms) \o " ms"

C6_Headers ==
    op = "output_stats" =>
        IF cfg.header_stats
        THEN /\ response[HNumQueries] = str(Len(infos))
             /\ response[HDuplicates] = str(num_duplicates[1])
             /\ IsMillisHeader(response[HSqlTime], SumSeq(TimesOf(infos)))
             /\ IsMillisHeader(response[HRequestTime], request_time[1])
             /\ \A h \in HeaderNames \ StatsHeaderNames : response[h] = FreshResponse[h]
        ELSE response = FreshResponse

C6_Witness ==
    /\ op = "output_stats"
    /\ cfg.header_stats
    /\ response[HNumQueries] = "2"
    /\ response[HDuplicates] = "1"
    /\ response[HSqlTime] = "333 ms"
    /\ response[HRequestTime] = "1000 ms"

(* C7: with stats logging on, output_stats emits exactly one summary line,
   styled by the severity of the duplicate excess (HIGH style above the high
   threshold, else MEDIUM style above the medium threshold, else LOW style);
   with stats logging off it emits none. *)
C7_SummaryStyledBySeverity ==
    op = "output_stats" =>
        IF cfg.log_stats
        THEN /\ Len(log) = 1
             /\ log[1].kind = "stats"
             /\ log[1].style =
                   (IF num_duplicates[1] > cfg.threshold.HIGH THEN "red"
                    ELSE IF num_duplicates[1] > cfg.threshold.MEDIUM THEN "yellow"
                    ELSE "green")
        ELSE log = <<>>

(* C8: with medium <= high, the severity of the repeated-query lines is
   monotonic in the count (LOW < MEDIUM < HIGH), and equal counts get equal
   severities. *)
Rank(style) == CASE style = "green" -> 0 [] style = "yellow" -> 1 [] style = "red" -> 2

C9_BatchIsRequestQueries ==
    (req.phase = "ended" /\ req.start_called /\ ~ignore_request(cfg, req.path)) =>
        LET mine == get_query_infos(req.executed)
        IN /\ infos = mine
           /\ ~raised =>
                /\ num_duplicates = Some(ExpectedExcess(mine))
                /\ \A i \in 1 .. Len(log) : log[i].kind = "stats" =>
                      /\ log[i].n = Len(mine)
                      /\ log[i].duplicates = ExpectedExcess(mine)
                      /\ log[i].sql_ms = Millis(SumSeq(TimesOf(mine)))
                /\ cfg.header_stats =>
                      /\ response[HNumQueries] = str(Len(mine))
                      /\ response[HDuplicates] = str(ExpectedExcess(mine))
                      /\ response[HSqlTime] = str(Millis(SumSeq(TimesOf(mine)))) \o " ms"

C9_Witness ==
    /\ req.phase = "ended"
    /\ req.start_called
    /\ ~ignore_request(cfg, req.path)
    /\ ~raised
    /\ conn_queries_len # None /\ conn_queries_len[1] > 0
    /\ Len(req.executed) > 0
    /\ Len(infos) < Len(queries)
    /\ cfg.log_stats /\ cfg.header_stats

(* C10: with per-duplicate and traceback logging both on, a duplicated
   statement whose first record has no traceback gets no traceback line,
   no error is raised and the duplicate excess is still returned; a
   traceback line is logged only for the duplicated statements whose first
   record carries a traceback. *)
FirstOf(batch, sql) == batch[CHOOSE i \in 1 .. Len(batch) :
                                /\ batch[i].sql = sql
                                /\ \A j \in 1 .. i - 1 : batch[j].sql # sql]

C10_AbsentTracebackTolerated ==
    (op = "check_duplicates" /\ cfg.log_queries /\ cfg.log_tbs) =>
        /\ ~raised
        /\ num_duplicates = Some(ExpectedExcess(infos))
        /\ Len(LinesOf("traceback")) =
              Cardinality({x \in SqlsOf(infos) :
                              Count(infos, x) > 1 /\ FirstOf(infos, x).tb # None})

====
